---- MODULE Spec2Model ----
(***************************************************************************)
(* The p2p connection server of go-zenon (src/p2p/server.go): the facade   *)
(* (Start, Stop, Peers, PeerCount), the run loop that owns the peer map,   *)
(* the accept loop, the setup drivers with their two checkpoints and the   *)
(* peer drivers.                                                           *)
(*                                                                         *)
(* Channels.  All channels of the server are unbuffered.  A communication  *)
(* is one action in which the sender and the receiver both move.  quit is  *)
(* only ever closed.  A Go select that has a ready case never parks, and   *)
(* closing quit wakes every select parked on it, so once quit is closed no *)
(* select with a quit case is waiting on its other cases: two selects that *)
(* both have a quit case (run-loop select against Peers, PeerCount or the  *)
(* first select of checkpoint) can only meet while quit is open.  An       *)
(* unconditional send (c.cont <- err, peerOpDone <- .., delpeer <- p)      *)
(* parks, and can be received by a select at any time.                     *)
(***************************************************************************)
EXTENDS Integers, FiniteSets, Sequences, TLC

\* ---------------------------------------------------------------- bounds
NConns == 2          \* connections ever opened (inbound or dialed)
NIDs == 3            \* node identities 1..NIDs; 1 is the server's own
MaxMaxPeers == 1     \* MaxPeers is configured in 1..MaxMaxPeers
MaxStartCalls == 2   \* Start() invocations
MaxStopCalls == 2    \* Stop() invocations
MaxCalls == 1        \* Peers()/PeerCount() invocations

NTasks == 2          \* dial tasks ever started
NPlanned == 18       \* tasks the planner ever returns
MaxFreeReturns == 2  \* completions of t.Do that happen in any order
MaxClock == 1        \* the clock ticks up to MaxClock
MaxMaxPending == 1   \* MaxPendingPeers is configured in 0..MaxMaxPending

Conns == 1..NConns
Tasks == 1..NTasks
\* Tasks the planner can return from newTasks, numbered in the order it
\* returns them, and the sizes of the batches it returns.
Planned == 1..NPlanned
Batches == {0, 1, NPlanned}
NodeIDs == 1..NIDs

\* discover.NodeID{}: the all-zero identity of the empty node.
ZeroID == 0
\* discover.PubkeyID(&srv.PrivateKey.PublicKey)
SelfID == 1

\* Maximum number of concurrently handshaking inbound connections.
maxAcceptConns == 50
\* Maximum number of concurrently dialing outbound connections.
maxActiveDialTasks == 16

\* Capabilities (name, version) and the sets a remote or the server declares.
CapSets == {{"eth/65"}, {"xyz/1"}}
ProtocolSets == {{}, {"eth/65"}}
\* Configured TrustedNodes (as sets of ids): none, a remote, a remote and self.
TrustedSets == {{}, {NIDs}, {SelfID, NIDs}}

\* connFlag provenance values; trustedConn is the separate field trusted.
Kinds == {"inboundConn", "dynDialedConn", "staticDialedConn"}

VARIABLES
    cfg,        \* configuration fields of Server, fixed before Start
    running,    \* srv.running
    lock,       \* srv.lock: "free" or "Stop" (Stop between its two steps)
    quit,       \* srv.quit: "nil", "open", "closed"
    listener,   \* srv.listener: "nil", "open", "closed"
    panicked,   \* the process died of a run-time panic
    loop,       \* position of the run loop goroutine
    lc,         \* the conn the run loop received at a checkpoint (0: none)
    lerr,       \* the verdict the run loop is about to send on lc's cont
    peers,      \* run()'s peers map: NodeID -> conn of the peer (0: absent)
    acc,        \* position of the accept loop goroutine
    conn,       \* the conn descriptors and the position of their setup driver
    pst,        \* position of the peer driver of each conn
    pdisc,      \* the peer was told Disconnect(DiscQuitting)
    callSt,     \* position of the Peers()/PeerCount() caller
    callKind,   \* which of the two it called
    callRet,    \* what the last call returned: ps of Peers, count of PeerCount
    calls,      \* number of calls made
    callSeen,   \* history: peer maps that existed during the current call
    callLate,   \* history: the current call began after Stop had returned
    started,    \* history: a Start returned nil
    stopDone,   \* history: a Stop returned after a Start returned nil
    startCalls, \* history: number of Start invocations
    stopCalls,  \* history: number of Stop invocations
    startRet,   \* history: what the last Start returned
    loopSpawns, \* history: number of run loops spawned
    quitCloses, \* history: number of close(srv.quit) executed
    ntab,       \* srv.ntab, the discovery table: "nil", "open", "closed"
    slots,      \* listenLoop's slots channel: number of tokens in it
    now,        \* run()'s now, read at the top of the current iteration
    task,       \* the dial tasks and the position of their worker
    taskdone,   \* run()'s taskdone channel: the tasks buffered in it
    clock,      \* time.Now()
    queuedTasks,  \* run()'s queuedTasks: tasks that cannot run yet
    runningTasks, \* run()'s runningTasks
    issued,     \* the planner has returned the tasks 1..issued from newTasks
    spawned,    \* history: number of workers started for each planned task
    doing,      \* the planned tasks whose worker is inside t.Do(srv)
    handled,    \* history: the tasks passed to dialstate.taskDone
    sched,      \* scheduleTasks of the current iteration: "due" or "done"
    asked,      \* the running argument of the last scheduleTasks' newTasks
                \* call (-1: it made none)
    loopWG      \* srv.loopWG: its counter

vars == <<cfg, running, lock, quit, listener, panicked, loop, lc, lerr, peers,
          acc, conn, pst, pdisc, callSt, callKind, callRet, calls, callSeen,
          callLate, started, stopDone, startCalls, stopCalls, startRet,
          loopSpawns, quitCloses, ntab, slots, now, task, taskdone, clock,
          queuedTasks, runningTasks, issued, spawned, doing, handled, sched,
          asked, loopWG>>

facadeVars == <<running, lock, quit, listener, panicked, started, stopDone,
                startCalls, stopCalls, startRet, loopSpawns, quitCloses, ntab>>
loopVars == <<loop, lc, lerr, now>>
schedVars == <<queuedTasks, runningTasks, issued, spawned, doing, handled,
               sched, asked>>
dialVars == <<task, taskdone, clock, schedVars>>
callVars == <<callSt, callKind, callRet, calls, callSeen, callLate>>
peerVars == <<pst, pdisc>>

\* A conn descriptor: position of its setup driver (st), provenance flag (kind),
\* c.id, c.caps, the trustedConn flag, whether the transport was closed,
\* whether the watchdog goroutine of setupConn is parked on it (wd), and, once
\* setupConn has read them, dialDest.ID (dest, ZeroID for nil) and phs.ID (phs).
\* A descriptor nothing reads any more (its setup driver returned and it is
\* not a live peer) is reduced to Closed.
NoConn == [st |-> "free", kind |-> "inboundConn", id |-> ZeroID,
           caps |-> {}, trusted |-> FALSE, closed |-> FALSE, wd |-> FALSE,
           dest |-> ZeroID, phs |-> ZeroID]
Closed == [NoConn EXCEPT !.st = "done", !.closed = TRUE]

\* A dial task: position of its worker (st), the flag it dials with (kind), the
\* conn it handed to setupConn (c, 0: none), the time its worker started and
\* the time the run loop passed to dialstate.taskDone for it.
NoTask == [st |-> "none", kind |-> "dynDialedConn", c |-> 0, start |-> 0, rec |-> 0]

\* The zero values Peers (var ps []*Peer) and PeerCount (var count int) return
\* when their closure did not run.
NoResult == [ps |-> {}, count |-> 0]

\* len(peers)
PeerLen(ps) == Cardinality({i \in NodeIDs : ps[i] # 0})
PeerIDs(ps) == {i \in NodeIDs : ps[i] # 0}

Init ==
    /\ cfg \in [PrivateKey : BOOLEAN, MaxPeers : 1..MaxMaxPeers,
                TrustedNodes : TrustedSets, Protocols : ProtocolSets,
                ListenAddr : BOOLEAN, Discovery : BOOLEAN,
                MaxPendingPeers : 0..MaxMaxPending]
    /\ running = FALSE
    /\ lock = "free"
    /\ quit = "nil"
    /\ listener = "nil"
    /\ panicked = FALSE
    /\ loop = "none"
    /\ lc = 0
    /\ lerr = "none"
    /\ peers = [i \in NodeIDs |-> 0]
    /\ acc = "none"
    /\ conn = [c \in Conns |-> NoConn]
    /\ pst = [c \in Conns |-> "none"]
    /\ pdisc = [c \in Conns |-> FALSE]
    /\ callSt = "idle"
    /\ callKind = "Peers"
    /\ callRet = NoResult
    /\ calls = 0
    /\ callSeen = {}
    /\ callLate = FALSE
    /\ started = FALSE
    /\ stopDone = FALSE
    /\ startCalls = 0
    /\ stopCalls = 0
    /\ startRet = "none"
    /\ loopSpawns = 0
    /\ quitCloses = 0
    /\ ntab = "nil"
    /\ slots = 0
    /\ now = 0
    /\ task = [t \in Tasks |-> NoTask]
    /\ taskdone = <<>>
    /\ clock = 0
    /\ queuedTasks = <<>>
    /\ runningTasks = <<>>
    /\ issued = 0
    /\ spawned = [t \in Planned |-> 0]
    /\ doing = {}
    /\ handled = {}
    /\ sched = "due"
    /\ asked = -1
    /\ loopWG = 0


\* ---------------------------------------------------------------- facade

\* listenLoop: tokens, the number of slots put into the slots channel.
Tokens ==
    IF cfg.MaxPendingPeers > 0 THEN cfg.MaxPendingPeers ELSE maxAcceptConns

\* What Start returns, from its early returns in source order.  discErr and
\* listenErr say whether discover.ListenUDP and net.Listen fail.
StartResult_NoRunningCheck(discErr, listenErr) ==
    IF ~cfg.PrivateKey THEN "errNoPrivateKey"
    ELSE IF cfg.Discovery /\ discErr THEN "errDiscovery"
    ELSE IF cfg.ListenAddr /\ listenErr THEN "errListen"
    ELSE "nil"

StartResult(discErr, listenErr) ==
    IF running THEN "errAlreadyRunning"
    ELSE IF ~cfg.PrivateKey THEN "errNoPrivateKey"
    ELSE IF cfg.Discovery /\ discErr THEN "errDiscovery"
    ELSE IF cfg.ListenAddr /\ listenErr THEN "errListen"
    ELSE "nil"

\* Server.Start, under srv.lock from entry to return.  A server is not started
\* again once it ran and was stopped ("Servers can not be re-used after
\* stopping").
Start(discErr, listenErr) ==
    LET r == StartResult(discErr, listenErr)
        made == r \notin {"errAlreadyRunning", "errNoPrivateKey"}
    IN  /\ ~panicked
        /\ lock = "free"
        /\ startCalls < MaxStartCalls
        /\ ~(started /\ quit = "closed")
        /\ startCalls' = startCalls + 1
        /\ startRet' = r
        /\ running' = TRUE
        /\ quit' = IF made THEN "open" ELSE quit
        /\ quitCloses' = IF made THEN 0 ELSE quitCloses
        /\ listener' = IF r = "nil" /\ cfg.ListenAddr THEN "open" ELSE listener
        /\ acc' = IF r = "nil" /\ cfg.ListenAddr THEN "accept" ELSE acc
        /\ slots' = IF r = "nil" /\ cfg.ListenAddr THEN Tokens - 1 ELSE slots
        /\ loop' = IF r = "nil" THEN "select" ELSE loop
        /\ loopSpawns' = IF r = "nil" THEN loopSpawns + 1 ELSE loopSpawns
        /\ started' = (started \/ r = "nil")
        /\ ntab' = IF made /\ cfg.Discovery /\ ~discErr THEN "open" ELSE ntab
        /\ now' = IF r = "nil" THEN clock ELSE now
        /\ loopWG' = IF r = "nil"
                     THEN loopWG + (IF cfg.ListenAddr THEN 2 ELSE 1)
                     ELSE loopWG
        /\ UNCHANGED <<cfg, dialVars, lock, panicked, lc, lerr, peers, conn,
                       peerVars, callVars, stopDone, stopCalls>>

\* Server.Stop, first half: take the lock, return at once if not running,
\* else clear the flag.
StopBegin_NoGuard ==
    /\ ~panicked
    /\ lock = "free"
    /\ stopCalls < MaxStopCalls
    /\ stopCalls' = stopCalls + 1
    /\ running' = FALSE
    /\ lock' = "Stop"
    /\ UNCHANGED <<cfg, loopWG, slots, dialVars, ntab, quit, listener,
                   panicked, loopVars, peers, acc, conn, peerVars, callVars,
                   started, stopDone, startCalls, startRet, loopSpawns,
                   quitCloses>>

StopBegin ==
    /\ ~panicked
    /\ lock = "free"
    /\ stopCalls < MaxStopCalls
    /\ stopCalls' = stopCalls + 1
    /\ IF ~running
       THEN /\ stopDone' = (stopDone \/ started)
            /\ UNCHANGED <<running, lock>>
       ELSE /\ running' = FALSE
            /\ lock' = "Stop"
            /\ UNCHANGED stopDone
    /\ UNCHANGED <<cfg, loopWG, slots, dialVars, ntab, quit, listener,
                   panicked, loopVars, peers, acc, conn, peerVars, callVars,
                   started, startCalls, startRet, loopSpawns, quitCloses>>

\* Server.Stop, second half: close the listener, close(srv.quit), unlock and
\* return.  Nothing is waited for.  Closing a nil or a closed channel panics.
StopFinish_NoClose ==
    /\ ~panicked
    /\ lock = "Stop"
    /\ listener' = IF listener = "open" THEN "closed" ELSE listener
    /\ lock' = "free"
    /\ stopDone' = (stopDone \/ started)
    /\ UNCHANGED <<cfg, loopWG, slots, dialVars, ntab, running, quit,
                   panicked, quitCloses, loopVars, peers, acc, conn, peerVars,
                   callVars, started, startCalls, stopCalls, startRet,
                   loopSpawns>>

StopFinish ==
    /\ ~panicked
    /\ lock = "Stop"
    /\ listener' = IF listener = "open" THEN "closed" ELSE listener
    /\ lock' = "free"
    /\ IF quit = "open"
       THEN /\ quit' = "closed"
            /\ quitCloses' = quitCloses + 1
            /\ stopDone' = (stopDone \/ started)
            /\ UNCHANGED panicked
       ELSE /\ panicked' = TRUE
            /\ UNCHANGED <<quit, quitCloses, stopDone>>
    /\ UNCHANGED <<cfg, loopWG, slots, dialVars, ntab, running, loopVars,
                   peers, acc, conn, peerVars, callVars, started, startCalls,
                   stopCalls, startRet, loopSpawns>>


\* ---------------------------------------------------------------- checks

\* Server.Self().ID: the empty node while the server is not running, else the
\* node of our public key (assembled by hand or taken from the table).
SelfNodeID == IF ~running THEN ZeroID ELSE SelfID

\* countMatchingProtocols(srv.Protocols, c.caps)
countMatchingProtocols(protocols, caps) == Cardinality(protocols \cap caps)

\* !c.is(trustedConn|staticDialedConn)
Exempt(c) == c.trusted \/ c.kind = "staticDialedConn"

encHandshakeChecks_NoCap(ps, c) ==
    IF ps[c.id] # 0 THEN "DiscAlreadyConnected"
    ELSE IF c.id = SelfNodeID THEN "DiscSelf"
    ELSE "nil"

encHandshakeChecks_NoDup(ps, c) ==
    IF ~Exempt(c) /\ PeerLen(ps) >= cfg.MaxPeers THEN "DiscTooManyPeers"
    ELSE IF c.id = SelfNodeID THEN "DiscSelf"
    ELSE "nil"

encHandshakeChecks_NoSelf(ps, c) ==
    IF ~Exempt(c) /\ PeerLen(ps) >= cfg.MaxPeers THEN "DiscTooManyPeers"
    ELSE IF ps[c.id] # 0 THEN "DiscAlreadyConnected"
    ELSE "nil"

\* The switch with its first two cases exchanged.
encHandshakeChecks_DupFirst(ps, c) ==
    IF ps[c.id] # 0 THEN "DiscAlreadyConnected"
    ELSE IF ~Exempt(c) /\ PeerLen(ps) >= cfg.MaxPeers THEN "DiscTooManyPeers"
    ELSE IF c.id = SelfNodeID THEN "DiscSelf"
    ELSE "nil"

\* Server.encHandshakeChecks: the first matching case of the switch.
encHandshakeChecks(ps, c) ==
    IF ~Exempt(c) /\ PeerLen(ps) >= cfg.MaxPeers THEN "DiscTooManyPeers"
    ELSE IF ps[c.id] # 0 THEN "DiscAlreadyConnected"
    ELSE IF c.id = SelfNodeID THEN "DiscSelf"
    ELSE "nil"

\* The switch reaches its third case, which calls srv.Self() and so takes
\* srv.lock.
CallsSelf(ps, c) ==
    /\ ~(~Exempt(c) /\ PeerLen(ps) >= cfg.MaxPeers)
    /\ ps[c.id] = 0

protoHandshakeChecks_NoUseless(ps, c) == encHandshakeChecks(ps, c)

\* Server.protoHandshakeChecks
protoHandshakeChecks(ps, c) ==
    IF cfg.Protocols # {} /\ countMatchingProtocols(cfg.Protocols, c.caps) = 0
    THEN "DiscUselessPeer"
    ELSE encHandshakeChecks(ps, c)

Useless(c) ==
    cfg.Protocols # {} /\ countMatchingProtocols(cfg.Protocols, c.caps) = 0

SlotsAfter_Keep(c) == slots

\* The goroutine listenLoop spawned for an inbound conn returns its slot when
\* setupConn has returned: slots <- struct{}{}.
SlotsAfter(c) == IF conn[c].kind = "inboundConn" THEN slots + 1 ELSE slots

\* srv.loopWG.Done() of the goroutine in which setupConn(c) ran, when setupConn
\* returns: the goroutine listenLoop spawned calls it at once; the worker of a
\* dial task calls it when t.Do returns, which for a task that is not followed
\* further is the same moment.
DoneAfterSetup(c) ==
    IF conn[c].kind = "inboundConn" \/ \A t \in Tasks : task[t].c # c
    THEN loopWG - 1
    ELSE loopWG

\* The peers of a map as a set (of the conns they wrap).
PeerSet(ps) == {ps[i] : i \in PeerIDs(ps)}

\* History kept for a call in progress: every peer map that existed meanwhile.
Seen(ps) == IF callSt # "idle" THEN callSeen \cup {PeerSet(ps)} ELSE callSeen

\* ---------------------------------------------------------------- run loop

\* case <-srv.quit: break running
RunQuit ==
    /\ ~panicked
    /\ loop = "select"
    /\ quit = "closed"
    /\ loop' = "disconnect"
    /\ UNCHANGED <<cfg, loopWG, slots, dialVars, now, facadeVars, lc, lerr,
                   peers, acc, conn, peerVars, callVars>>

\* The closure of Peers / PeerCount applied to the peer map.
PeerOpResult_Stale(kind, ps) == NoResult

PeerOpResult(kind, ps) ==
    IF kind = "Peers"
    THEN [NoResult EXCEPT !.ps = PeerSet(ps)]
    ELSE [NoResult EXCEPT !.count = PeerLen(ps)]

\* case op := <-srv.peerOp: op(peers), meeting the send in Peers/PeerCount.
RunPeerOp ==
    /\ ~panicked
    /\ loop = "select"
    /\ callSt = "select"
    /\ quit = "open"
    /\ callRet' = PeerOpResult(callKind, peers)
    /\ callSt' = "waitdone"
    /\ loop' = "opdone"
    /\ UNCHANGED <<cfg, loopWG, slots, dialVars, now, facadeVars, lc, lerr,
                   peers, acc, conn, peerVars, callKind, calls, callSeen,
                   callLate>>

\* srv.peerOpDone <- struct{}{}, meeting <-srv.peerOpDone in the caller.
RunPeerOpDone ==
    /\ ~panicked
    /\ loop = "opdone"
    /\ callSt = "waitdone"
    /\ loop' = "select"
    /\ now' = clock
    /\ callSt' = "idle"
    /\ callSeen' = {}
    /\ UNCHANGED <<cfg, loopWG, slots, dialVars, facadeVars, lc, lerr, peers,
                   acc, conn, peerVars, callKind, callRet, calls, callLate>>

\* case c := <-srv.posthandshake, meeting the first select of checkpoint.
RunPostHandshake(c) ==
    /\ ~panicked
    /\ loop = "select"
    /\ conn[c].st = "cp1send"
    /\ quit = "open"
    /\ loop' = "ph"
    /\ lc' = c
    /\ conn' = [conn EXCEPT ![c].st = "cp1wait"]
    /\ UNCHANGED <<cfg, loopWG, slots, dialVars, now, facadeVars, lerr, peers,
                   acc, peerVars, callVars>>

\* if trusted[c.id] { c.flags |= trustedConn }
MarkTrusted_Never(c) == c

MarkTrusted(c) ==
    [c EXCEPT !.trusted = c.trusted \/ c.id \in cfg.TrustedNodes]

\* posthandshake case: mark trusted, then evaluate encHandshakeChecks.
RunEncChecks ==
    /\ ~panicked
    /\ loop = "ph"
    /\ LET c == MarkTrusted(conn[lc])
           err == encHandshakeChecks(peers, c)
       IN  /\ CallsSelf(peers, c) => lock = "free"
           /\ lerr' = err
           /\ conn' = [conn EXCEPT ![lc] = c]
    /\ loop' = "phsend"
    /\ UNCHANGED <<cfg, loopWG, slots, dialVars, now, facadeVars, lc, peers,
                   acc, peerVars, callVars>>

\* c.cont <- verdict of the posthandshake case, meeting <-c.cont in checkpoint;
\* setupConn closes the conn on an error, else goes on to the protocol
\* handshake.
RunPostHandshakeReply ==
    /\ ~panicked
    /\ loop = "phsend"
    /\ conn[lc].st = "cp1wait"
    /\ slots' = IF lerr = "nil" THEN slots ELSE SlotsAfter(lc)
    /\ conn' = IF lerr = "nil" THEN [conn EXCEPT ![lc].st = "proto"]
               ELSE [conn EXCEPT ![lc] = Closed]
    /\ loop' = "select"
    /\ now' = clock
    /\ lc' = 0
    /\ lerr' = "none"
    /\ loopWG' = IF lerr = "nil" THEN loopWG ELSE DoneAfterSetup(lc)
    /\ UNCHANGED <<cfg, dialVars, facadeVars, peers, acc, peerVars, callVars>>

\* case c := <-srv.addpeer, meeting the first select of checkpoint.
RunAddPeer(c) ==
    /\ ~panicked
    /\ loop = "select"
    /\ conn[c].st = "cp2send"
    /\ quit = "open"
    /\ loop' = "ap"
    /\ lc' = c
    /\ conn' = [conn EXCEPT ![c].st = "cp2wait"]
    /\ UNCHANGED <<cfg, loopWG, slots, dialVars, now, facadeVars, lerr, peers,
                   acc, peerVars, callVars>>

\* addpeer case: protoHandshakeChecks; on nil insert the peer and spawn its
\* driver.
RunProtoChecks ==
    /\ ~panicked
    /\ loop = "ap"
    /\ LET c == conn[lc]
           err == protoHandshakeChecks(peers, c)
           ps == IF err = "nil" THEN [peers EXCEPT ![c.id] = lc] ELSE peers
       IN  /\ (~Useless(c) /\ CallsSelf(peers, c)) => lock = "free"
           /\ lerr' = err
           /\ UNCHANGED conn
           /\ peers' = ps
           /\ pst' = IF err = "nil" THEN [pst EXCEPT ![lc] = "run"] ELSE pst
           /\ callSeen' = Seen(ps)
           /\ loopWG' = IF err = "nil" THEN loopWG + 1 ELSE loopWG
    /\ loop' = "apsend"
    /\ UNCHANGED <<cfg, slots, dialVars, now, facadeVars, lc, acc, pdisc,
                   callSt, callKind, callRet, calls, callLate>>

\* c.cont <- err of the addpeer case, meeting <-c.cont in checkpoint; setupConn
\* closes the conn on an error, else returns.
RunAddPeerReply ==
    /\ ~panicked
    /\ loop = "apsend"
    /\ conn[lc].st = "cp2wait"
    /\ slots' = SlotsAfter(lc)
    /\ conn' = IF lerr = "nil"
               THEN [conn EXCEPT ![lc].st = "done", ![lc].caps = {}]
               ELSE [conn EXCEPT ![lc] = Closed]
    /\ loop' = "select"
    /\ now' = clock
    /\ lc' = 0
    /\ lerr' = "none"
    /\ loopWG' = DoneAfterSetup(lc)
    /\ UNCHANGED <<cfg, dialVars, facadeVars, peers, acc, peerVars, callVars>>

\* delete(peers, p.ID()) emptying the whole map.
DeletePeer_All(ps, c) == [i \in NodeIDs |-> 0]

\* delete(peers, p.ID())
DeletePeer(ps, c) == [ps EXCEPT ![conn[c].id] = 0]

\* case p := <-srv.delpeer, meeting the send at the end of runPeer.
RunDelPeer(c) ==
    /\ ~panicked
    /\ loop = "select"
    /\ pst[c] = "delpeer"
    /\ peers' = DeletePeer(peers, c)
    /\ now' = clock
    /\ pst' = [pst EXCEPT ![c] = "gone"]
    /\ conn' = [conn EXCEPT ![c] = Closed]
    /\ callSeen' = Seen(DeletePeer(peers, c))
    /\ loopWG' = loopWG - 1
    /\ UNCHANGED <<cfg, slots, dialVars, facadeVars, loop, lc, lerr, acc,
                   pdisc, callSt, callKind, callRet, calls, callLate>>

\* The shutdown sequence without its disconnect loop.
RunDisconnectAll_Skip ==
    /\ ~panicked
    /\ loop = "disconnect"
    /\ loop' = "ntabclose"
    /\ UNCHANGED <<cfg, loopWG, slots, dialVars, now, facadeVars, lc, lerr,
                   peers, acc, conn, peerVars, callVars>>


\* for _, p := range peers { p.Disconnect(DiscQuitting) }: a peer whose session
\* is still running receives the reason.
RunDisconnectAll ==
    /\ ~panicked
    /\ loop = "disconnect"
    /\ pdisc' = [c \in Conns |->
                   pdisc[c] \/ (c \in PeerSet(peers) /\ pst[c] = "run")]
    /\ loop' = "ntabclose"
    /\ UNCHANGED <<cfg, loopWG, slots, dialVars, now, facadeVars, lc, lerr,
                   peers, acc, conn, pst, callVars>>

\* if srv.ntab != nil { srv.ntab.Close() }
RunCloseNtab ==
    /\ ~panicked
    /\ loop = "ntabclose"
    /\ ntab' = IF ntab = "open" THEN "closed" ELSE ntab
    /\ loop' = "drain"
    /\ UNCHANGED <<cfg, loopWG, slots, dialVars, now, running, lock, quit,
                   listener, panicked, started, stopDone, startCalls,
                   stopCalls, startRet, loopSpawns, quitCloses, lc, lerr,
                   peers, acc, conn, peerVars, callVars>>

\* for len(peers) > 0 { p := <-srv.delpeer; delete(peers, p.ID()) }
RunDrain(c) ==
    /\ ~panicked
    /\ loop = "drain"
    /\ PeerLen(peers) > 0
    /\ pst[c] = "delpeer"
    /\ peers' = DeletePeer(peers, c)
    /\ pst' = [pst EXCEPT ![c] = "gone"]
    /\ conn' = [conn EXCEPT ![c] = Closed]
    /\ callSeen' = Seen(DeletePeer(peers, c))
    /\ loopWG' = loopWG - 1
    /\ UNCHANGED <<cfg, slots, dialVars, facadeVars, loopVars, acc, pdisc,
                   callSt, callKind, callRet, calls, callLate>>

\* run returns once the map is empty; the goroutine calls loopWG.Done.
RunExit ==
    /\ ~panicked
    /\ loop = "drain"
    /\ PeerLen(peers) = 0
    /\ loop' = "exit"
    /\ loopWG' = loopWG - 1
    /\ UNCHANGED <<cfg, slots, dialVars, now, facadeVars, lc, lerr, peers,
                   acc, conn, peerVars, callVars>>


\* ---------------------------------------------------------------- accept loop

\* Conn descriptors are taken in order of their number.
NextFree(c) == conn[c].st = "free" /\ \A d \in Conns : d < c => conn[d].st # "free"

\* listenLoop: Accept returned a connection; go srv.setupConn(mfd, inboundConn, nil).
Accept(c) ==
    /\ ~panicked
    /\ acc = "accept"
    /\ listener = "open"
    /\ NextFree(c)
    /\ conn' = [conn EXCEPT ![c] = [NoConn EXCEPT !.st = "gate"]]
    /\ IF slots > 0
       THEN slots' = slots - 1 /\ acc' = "accept"
       ELSE slots' = slots /\ acc' = "slot"
    /\ loopWG' = loopWG + 1
    /\ UNCHANGED <<cfg, dialVars, facadeVars, loopVars, peers, peerVars,
                   callVars>>

\* listenLoop: <-slots, parked until a setup driver has returned a slot.
AcquireSlot ==
    /\ ~panicked
    /\ acc = "slot"
    /\ slots > 0
    /\ slots' = slots - 1
    /\ acc' = "accept"
    /\ UNCHANGED <<cfg, loopWG, dialVars, facadeVars, loopVars, peers, conn,
                   peerVars, callVars>>

\* listenLoop: Accept returned an error (the listener was closed); return.
AcceptError ==
    /\ ~panicked
    /\ acc = "accept"
    /\ listener = "closed"
    /\ acc' = "exit"
    /\ loopWG' = loopWG - 1
    /\ UNCHANGED <<cfg, slots, dialVars, facadeVars, loopVars, peers, conn,
                   peerVars, callVars>>

\* ---------------------------------------------------------------- dial tasks

\* Tasks are taken in order of their number.
NextFreeTask(t) ==
    task[t].st = "none" /\ \A u \in Tasks : u < t => task[u].st # "none"

\* len(runningTasks): the tasks started and not yet removed by delTask.
RunningTasks == {t \in Tasks : task[t].st \in {"run", "setup", "sent"}}

\* startTasks: the goroutine started for a task at the top of the iteration the
\* run loop is now parked in begins t.Do(srv).  scheduleTasks starts nothing
\* unless srv.running; the planner hands out dial tasks of either flag.
StartTask(t, kind) ==
    /\ ~panicked
    /\ loop = "select"
    /\ running
    /\ NextFreeTask(t)
    /\ Cardinality(RunningTasks) < maxActiveDialTasks
    /\ task' = [task EXCEPT ![t] = [NoTask EXCEPT !.st = "run", !.kind = kind,
                                                  !.start = clock]]
    /\ loopWG' = loopWG + 1
    /\ UNCHANGED <<cfg, slots, schedVars, taskdone, clock, facadeVars,
                   loopVars, peers, acc, conn, peerVars, callVars>>

\* t.Do(srv): the worker of dial task t connected to its node and calls
\* srv.setupConn(fd, flag, dest).
TaskDial(t, c) ==
    /\ ~panicked
    /\ task[t].st = "run"
    /\ NextFree(c)
    /\ task' = [task EXCEPT ![t].st = "setup", ![t].c = c]
    /\ conn' = [conn EXCEPT ![c] = [NoConn EXCEPT !.st = "gate",
                                                  !.kind = task[t].kind]]
    /\ UNCHANGED <<cfg, loopWG, slots, schedVars, taskdone, clock, facadeVars,
                   loopVars, peers, acc, peerVars, callVars>>

TaskDoReturns_Early(t) ==
    /\ ~panicked
    /\ task[t].st \in {"run", "setup"}
    /\ Len(taskdone) < maxActiveDialTasks
    /\ task' = [task EXCEPT ![t].st = "sent"]
    /\ taskdone' = Append(taskdone, t)
    /\ loopWG' = loopWG - 1
    /\ UNCHANGED <<cfg, slots, schedVars, clock, facadeVars, loopVars, peers,
                   acc, conn, peerVars, callVars>>

\* startTasks: t.Do(srv) returned, either without a connection (the dial
\* failed) or after setupConn returned; loopWG.Done(); taskdone <- t.
TaskDoReturns(t) ==
    /\ ~panicked
    /\ \/ task[t].st = "run"
       \/ task[t].st = "setup" /\ conn[task[t].c].st = "done"
    /\ Len(taskdone) < maxActiveDialTasks
    /\ task' = [task EXCEPT ![t].st = "sent"]
    /\ taskdone' = Append(taskdone, t)
    /\ loopWG' = loopWG - 1
    /\ UNCHANGED <<cfg, slots, schedVars, clock, facadeVars, loopVars, peers,
                   acc, conn, peerVars, callVars>>

\* case t := <-taskdone: dialstate.taskDone(t, now); delTask(t).  The planner
\* records now, the time read before the select, in its dial history.
RunTaskDone ==
    /\ ~panicked
    /\ loop = "select"
    /\ taskdone # <<>>
    /\ task' = [task EXCEPT ![Head(taskdone)].st = "done",
                            ![Head(taskdone)].rec = now]
    /\ taskdone' = Tail(taskdone)
    /\ now' = clock
    /\ UNCHANGED <<cfg, loopWG, slots, schedVars, clock, facadeVars, loop, lc,
                   lerr, peers, acc, conn, peerVars, callVars>>

\* Time passes.
Tick ==
    /\ ~panicked
    /\ clock < MaxClock
    /\ clock' = clock + 1
    /\ UNCHANGED <<cfg, loopWG, slots, schedVars, task, taskdone, facadeVars,
                   loopVars, peers, acc, conn, peerVars, callVars>>

\* ---------------------------------------------------------------- task scheduler

startTasks_NoCap(ts, rt) == Len(ts)

\* startTasks(ts): the number of tasks of ts its loop starts, rt being
\* runningTasks on entry: it goes on while len(runningTasks) <
\* maxActiveDialTasks and i < len(ts).
startTasks(ts, rt) ==
    IF Len(rt) >= maxActiveDialTasks THEN 0
    ELSE IF Len(ts) <= maxActiveDialTasks - Len(rt) THEN Len(ts)
    ELSE maxActiveDialTasks - Len(rt)

\* delTask(t) forgetting every running task.
delTask_All(rt, t) == <<>>

\* delTask(t): runningTasks without its first element equal to t.
delTask(rt, t) ==
    IF \E i \in 1..Len(rt) : rt[i] = t
    THEN LET i == CHOOSE i \in 1..Len(rt) :
                      rt[i] = t /\ \A j \in 1..(i - 1) : rt[j] # t
         IN  SubSeq(rt, 1, i - 1) \o SubSeq(rt, i + 1, Len(rt))
    ELSE rt

restOf_All(ts, n) == ts

\* return ts[i:] of startTasks, which started the first n tasks of ts.
restOf(ts, n) == SubSeq(ts, n + 1, Len(ts))

\* scheduleTasks() at the top of an iteration of the run loop: nothing unless
\* srv.running; start from the queue, then, if len(runningTasks) <
\* maxActiveDialTasks, ask the planner (which returns k new tasks) and start
\* as many of them as possible, queueing the rest.  Every started task gets a
\* worker goroutine that enters t.Do(srv).
RunScheduleTasks(k) ==
    /\ ~panicked
    /\ loop = "select"
    /\ sched = "due"
    /\ issued + k <= NPlanned
    /\ sched' = "done"
    /\ IF ~running
       THEN /\ asked' = -1
            /\ UNCHANGED <<queuedTasks, runningTasks, issued, spawned, doing,
                           loopWG>>
       ELSE LET n1 == startTasks(queuedTasks, runningTasks)
                rt1 == runningTasks \o SubSeq(queuedTasks, 1, n1)
                q1 == restOf(queuedTasks, n1)
                ask == Len(rt1) < maxActiveDialTasks
                nt == IF ask THEN [i \in 1..k |-> issued + i] ELSE <<>>
                n2 == startTasks(nt, rt1)
                rt2 == rt1 \o SubSeq(nt, 1, n2)
                new == (Len(runningTasks) + 1)..Len(rt2)
            IN  /\ runningTasks' = rt2
                /\ queuedTasks' = q1 \o restOf(nt, n2)
                /\ issued' = issued + Len(nt)
                /\ spawned' =
                      [t \in Planned |->
                          spawned[t] + Cardinality({i \in new : rt2[i] = t})]
                /\ doing' = doing \cup {rt2[i] : i \in new}
                /\ loopWG' = loopWG + Cardinality(new)
                /\ asked' = IF ask THEN Len(rt1) + Len(q1) ELSE -1
    /\ UNCHANGED <<cfg, slots, task, taskdone, clock, handled, facadeVars,
                   loopVars, peers, acc, conn, peerVars, callVars>>

\* The planned tasks whose t.Do(srv) has returned.
Returned == {t \in Planned : spawned[t] > 0 /\ t \notin doing}

\* The worker of a planned task: t.Do(srv) returns; loopWG.Done();
\* taskdone <- t.  The first MaxFreeReturns completions happen in any order,
\* later ones in the order of the task numbers.
WorkerDoReturns(t) ==
    /\ ~panicked
    /\ t \in doing
    /\ Cardinality(Returned) < MaxFreeReturns \/ \A u \in doing : t <= u
    /\ Len(taskdone) < maxActiveDialTasks
    /\ doing' = doing \ {t}
    /\ taskdone' = Append(taskdone, t)
    /\ loopWG' = loopWG - 1
    /\ UNCHANGED <<cfg, slots, task, clock, queuedTasks, runningTasks, issued,
                   spawned, handled, sched, asked, facadeVars, loopVars,
                   peers, acc, conn, peerVars, callVars>>

\* case t := <-taskdone of an iteration whose scheduleTasks has run:
\* dialstate.taskDone(t, now); delTask(t); the next iteration begins.
RunTaskDoneSched ==
    /\ ~panicked
    /\ loop = "select"
    /\ sched = "done"
    /\ taskdone # <<>>
    /\ handled' = handled \cup {Head(taskdone)}
    /\ runningTasks' = delTask(runningTasks, Head(taskdone))
    /\ taskdone' = Tail(taskdone)
    /\ sched' = "due"
    /\ now' = clock
    /\ UNCHANGED <<cfg, loopWG, slots, task, clock, queuedTasks, issued,
                   spawned, doing, asked, facadeVars, loop, lc, lerr, peers,
                   acc, conn, peerVars, callVars>>


\* A dial task started by the run loop connected to its node and calls
\* srv.setupConn(fd, flag, dest), flag being dynDialedConn or staticDialedConn.
Dial(c, kind) ==
    /\ ~panicked
    /\ started
    /\ NextFree(c)
    /\ conn' = [conn EXCEPT ![c] = [NoConn EXCEPT !.st = "gate", !.kind = kind]]
    /\ loopWG' = loopWG + 1
    /\ UNCHANGED <<cfg, slots, dialVars, facadeVars, loopVars, peers, acc,
                   peerVars, callVars>>

\* ---------------------------------------------------------------- setup driver

SetupGate_NoClose(c) ==
    /\ ~panicked
    /\ conn[c].st = "gate"
    /\ lock = "free"
    /\ conn' = IF running
               THEN [conn EXCEPT ![c].st = "enc", ![c].wd = TRUE]
               ELSE [conn EXCEPT ![c].st = "done"]
    /\ slots' = IF running THEN slots ELSE SlotsAfter(c)
    /\ loopWG' = IF running THEN loopWG ELSE DoneAfterSetup(c)
    /\ UNCHANGED <<cfg, dialVars, facadeVars, loopVars, peers, acc, peerVars,
                   callVars>>

\* setupConn: read srv.running under the lock; close the conn with
\* errServerStopped and return if the server is not running.
SetupGate(c) ==
    /\ ~panicked
    /\ conn[c].st = "gate"
    /\ lock = "free"
    /\ conn' = IF running
               THEN [conn EXCEPT ![c].st = "enc", ![c].wd = TRUE]
               ELSE [conn EXCEPT ![c] = Closed]
    /\ slots' = IF running THEN slots ELSE SlotsAfter(c)
    /\ loopWG' = IF running THEN loopWG ELSE DoneAfterSetup(c)
    /\ UNCHANGED <<cfg, dialVars, facadeVars, loopVars, peers, acc, peerVars,
                   callVars>>

\* The ids dialDest can have for a conn: nil (ZeroID) for an inbound one.
DialDests(c) == IF conn[c].kind = "inboundConn" THEN {ZeroID} ELSE NodeIDs

\* setupConn: c.doEncHandshake(srv.PrivateKey, dialDest) returns (id, err); then
\* the dialed-identity check.  dest is dialDest.ID, drawn here where it is
\* first read.
SetupEncHandshake(c, ok, id, dest) ==
    /\ ~panicked
    /\ conn[c].st = "enc"
    /\ dest \in DialDests(c)
    /\ ok => ~conn[c].closed
    /\ slots' = IF ok /\ (dest = ZeroID \/ id = dest) THEN slots ELSE SlotsAfter(c)
    /\ conn' = IF ~ok
               THEN [conn EXCEPT ![c] = Closed]
               ELSE IF dest # ZeroID /\ id # dest
               THEN [conn EXCEPT ![c] = Closed]
               ELSE [conn EXCEPT ![c].st = "cp1send", ![c].id = id,
                                 ![c].dest = dest]
    /\ loopWG' = IF ok /\ (dest = ZeroID \/ id = dest)
                 THEN loopWG ELSE DoneAfterSetup(c)
    /\ UNCHANGED <<cfg, dialVars, facadeVars, loopVars, peers, acc, peerVars,
                   callVars>>

\* checkpoint: case <-srv.quit in either select returns errServerStopped, and
\* setupConn closes the conn with it.
CheckpointQuit(c) ==
    /\ ~panicked
    /\ conn[c].st \in {"cp1send", "cp1wait", "cp2send", "cp2wait"}
    /\ quit = "closed"
    /\ slots' = SlotsAfter(c)
    /\ conn' = IF pst[c] = "none" /\ lc # c THEN [conn EXCEPT ![c] = Closed]
               ELSE [conn EXCEPT ![c].st = "done", ![c].caps = {}, ![c].closed = TRUE]
    /\ loopWG' = DoneAfterSetup(c)
    /\ UNCHANGED <<cfg, dialVars, facadeVars, loopVars, peers, acc, peerVars,
                   callVars>>

SetupProtoHandshake_NoIDCheck(c, ok, phsID, caps) ==
    /\ ~panicked
    /\ conn[c].st = "proto"
    /\ ok => ~conn[c].closed
    /\ slots' = IF ok THEN slots ELSE SlotsAfter(c)
    /\ conn' = IF ~ok
               THEN [conn EXCEPT ![c] = Closed]
               ELSE [conn EXCEPT ![c].st = "cp2send", ![c].caps = caps,
                                 ![c].phs = phsID]
    /\ loopWG' = IF ok THEN loopWG ELSE DoneAfterSetup(c)
    /\ UNCHANGED <<cfg, dialVars, facadeVars, loopVars, peers, acc, peerVars,
                   callVars>>


\* setupConn: c.doProtoHandshake returns (phs, err); then phs.ID != c.id.
SetupProtoHandshake(c, ok, phsID, caps) ==
    /\ ~panicked
    /\ conn[c].st = "proto"
    /\ ok => ~conn[c].closed
    /\ slots' = IF ok /\ phsID = conn[c].id THEN slots ELSE SlotsAfter(c)
    /\ conn' = IF ~ok
               THEN [conn EXCEPT ![c] = Closed]
               ELSE IF phsID # conn[c].id
               THEN [conn EXCEPT ![c] = Closed]
               ELSE [conn EXCEPT ![c].st = "cp2send", ![c].caps = caps,
                                 ![c].phs = phsID]
    /\ loopWG' = IF ok /\ phsID = conn[c].id
                 THEN loopWG ELSE DoneAfterSetup(c)
    /\ UNCHANGED <<cfg, dialVars, facadeVars, loopVars, peers, acc, peerVars,
                   callVars>>

\* ---------------------------------------------------------------- watchdog

\* setupConn's watchdog goroutine: case <-srv.quit: c.close(errServerStopped).
\* The goroutine outlives setupConn: timeout.Stop() does not wake it.
WatchdogQuit(c) ==
    /\ ~panicked
    /\ conn[c].wd
    /\ quit = "closed"
    /\ conn' = [conn EXCEPT ![c].closed = TRUE, ![c].wd = FALSE]
    /\ UNCHANGED <<cfg, loopWG, slots, dialVars, facadeVars, loopVars, peers,
                   acc, peerVars, callVars>>

\* setupConn's watchdog goroutine: case <-timeout.C: c.close(DiscReadTimeout),
\* while setupConn has not returned (its deferred timeout.Stop() has not run).
WatchdogTimeout(c) ==
    /\ ~panicked
    /\ conn[c].wd
    /\ conn[c].st # "done"
    /\ conn' = [conn EXCEPT ![c].closed = TRUE, ![c].wd = FALSE]
    /\ UNCHANGED <<cfg, loopWG, slots, dialVars, facadeVars, loopVars, peers,
                   acc, peerVars, callVars>>

\* ---------------------------------------------------------------- peer driver

\* runPeer: p.run() returned; the driver now blocks in srv.delpeer <- p.
PeerRunReturns(c) ==
    /\ ~panicked
    /\ pst[c] = "run"
    /\ pst' = [pst EXCEPT ![c] = "delpeer"]
    /\ UNCHANGED <<cfg, loopWG, slots, dialVars, facadeVars, loopVars, peers,
                   acc, conn, pdisc, callVars>>

\* ---------------------------------------------------------------- Peers, PeerCount

\* Peers() or PeerCount() is called on a server whose Start returned nil and
\* reaches its select.
Call(kind) ==
    /\ ~panicked
    /\ started
    /\ callSt = "idle"
    /\ calls < MaxCalls
    /\ calls' = calls + 1
    /\ callSt' = "select"
    /\ callKind' = kind
    /\ callSeen' = {PeerSet(peers)}
    /\ callLate' = stopDone
    /\ UNCHANGED <<cfg, loopWG, slots, dialVars, facadeVars, loopVars, peers,
                   acc, conn, peerVars, callRet>>

CallQuit_Never ==
    /\ FALSE
    /\ UNCHANGED vars

\* case <-srv.quit: return the zero value (nil, 0).
CallQuit ==
    /\ ~panicked
    /\ callSt = "select"
    /\ quit = "closed"
    /\ callSt' = "idle"
    /\ callRet' = NoResult
    /\ callSeen' = {}
    /\ UNCHANGED <<cfg, loopWG, slots, dialVars, facadeVars, loopVars, peers,
                   acc, conn, peerVars, callKind, calls, callLate>>

\* ---------------------------------------------------------------- specification

LoopNext ==
    \/ RunQuit
    \/ \E c \in Conns : RunPostHandshake(c)
    \/ RunEncChecks
    \/ RunPostHandshakeReply
    \/ \E c \in Conns : RunAddPeer(c)
    \/ RunProtoChecks
    \/ RunAddPeerReply
    \/ \E c \in Conns : RunDelPeer(c)
    \/ RunDisconnectAll
    \/ RunCloseNtab
    \/ \E c \in Conns : RunDrain(c)
    \/ RunExit

PeerOpNext ==
    \/ \E k \in {"Peers", "PeerCount"} : Call(k)
    \/ CallQuit
    \/ RunPeerOp
    \/ RunPeerOpDone

InboundNext ==
    \/ \E c \in Conns : Accept(c)
    \/ AcceptError
    \/ \E c \in Conns : SetupGate(c)
    \/ \E c \in Conns, ok \in BOOLEAN, id \in NodeIDs, d \in NodeIDs \cup {ZeroID} :
          SetupEncHandshake(c, ok, id, d)
    \/ \E c \in Conns : CheckpointQuit(c)
    \/ \E c \in Conns, ok \in BOOLEAN, id \in NodeIDs, caps \in CapSets :
          SetupProtoHandshake(c, ok, id, caps)
    \/ \E c \in Conns : PeerRunReturns(c)

DialNext ==
    \E c \in Conns, k \in {"dynDialedConn", "staticDialedConn"} : Dial(c, k)

\* The dial tasks with their workers and the taskdone case of the run loop.
TaskNext ==
    \/ \E t \in Tasks, k \in {"dynDialedConn", "staticDialedConn"} :
          StartTask(t, k)
    \/ \E t \in Tasks, c \in Conns : TaskDial(t, c)
    \/ \E t \in Tasks : TaskDoReturns(t)
    \/ RunTaskDone

FacadeNext ==
    \/ \E d, l \in BOOLEAN : Start(d, l)
    \/ StopBegin
    \/ StopFinish

\* The whole server: every operation, any number of facade calls up to the
\* bounds.
Next == FacadeNext \/ LoopNext \/ PeerOpNext \/ InboundNext \/ DialNext

Spec == Init /\ [][Next]_vars

\* Admission scenario: one Start, one Stop, inbound and dialed connections of
\* every provenance, nobody calling Peers or PeerCount.
FacadeOnceNext ==
    \/ \E d, l \in BOOLEAN : startCalls = 0 /\ Start(d, l)
    \/ stopCalls = 0 /\ StopBegin
    \/ StopFinish

NextAdmit == FacadeOnceNext \/ LoopNext \/ InboundNext \/ DialNext

InitAdmit == Init /\ cfg.MaxPendingPeers = 0

SpecAdmit == InitAdmit /\ [][NextAdmit]_vars

\* Accept scenario: one Start, one Stop, inbound connections, with either the
\* default number of accept slots or a single one.
NextAccept == FacadeOnceNext \/ LoopNext \/ InboundNext \/ AcquireSlot

InitAccept ==
    /\ Init
    /\ cfg.TrustedNodes = {}
    /\ cfg.Protocols = {}
    /\ cfg.ListenAddr

SpecAccept == InitAccept /\ [][NextAccept]_vars

\* Facade scenario: repeated Start and Stop, a caller of Peers and PeerCount,
\* inbound connections only.
NextFacade == FacadeNext \/ LoopNext \/ PeerOpNext \/ InboundNext

InitFacade ==
    /\ Init
    /\ cfg.TrustedNodes = {}
    /\ cfg.Protocols = {}
    /\ cfg.MaxPendingPeers = 0

SpecFacade == InitFacade /\ [][NextFacade]_vars

\* Peers scenario: one Start, one Stop, a caller of Peers and PeerCount,
\* inbound connections.  Every goroutine that can run does run: the run loop,
\* the caller woken by the close of quit, Stop between taking the lock and
\* releasing it.  Remote peers and callers of Stop are not obliged to act.
NextPeers == FacadeOnceNext \/ LoopNext \/ PeerOpNext \/ InboundNext

RunLoopStep == LoopNext \/ RunPeerOp \/ RunPeerOpDone

SpecPeers ==
    /\ InitFacade
    /\ [][NextPeers]_vars
    /\ WF_vars(RunLoopStep)
    /\ WF_vars(CallQuit)
    /\ WF_vars(StopFinish)

\* Shutdown scenario: one Start, one Stop, inbound connections with their
\* watchdogs.  Every goroutine that can run does run: the run loop, Stop
\* between taking the lock and releasing it, a setup driver woken in
\* checkpoint by the close of quit, a watchdog woken by it, and the session of
\* a peer that was told to disconnect ends.
WatchdogNext ==
    \/ \E c \in Conns : WatchdogQuit(c)
    \/ \E c \in Conns : WatchdogTimeout(c)

NextShutdown == FacadeOnceNext \/ LoopNext \/ InboundNext \/ WatchdogNext

SpecShutdown ==
    /\ InitFacade
    /\ [][NextShutdown]_vars
    /\ WF_vars(LoopNext)
    /\ WF_vars(StopFinish)
    /\ \A c \in Conns : WF_vars(CheckpointQuit(c))
    /\ \A c \in Conns : WF_vars(WatchdogQuit(c))
    /\ \A c \in Conns : WF_vars(pdisc[c] /\ PeerRunReturns(c))

\* Dial scenario: one Start, one Stop, dial tasks started by the run loop, the
\* connections they hand to setupConn, and the clock.
SetupNext ==
    \/ \E c \in Conns : SetupGate(c)
    \/ \E c \in Conns, ok \in BOOLEAN, id \in NodeIDs, d \in NodeIDs \cup {ZeroID} :
          SetupEncHandshake(c, ok, id, d)
    \/ \E c \in Conns : CheckpointQuit(c)
    \/ \E c \in Conns, ok \in BOOLEAN, id \in NodeIDs, caps \in CapSets :
          SetupProtoHandshake(c, ok, id, caps)
    \/ \E c \in Conns : PeerRunReturns(c)

NextDial == FacadeOnceNext \/ LoopNext \/ SetupNext \/ TaskNext \/ Tick

InitDial ==
    /\ InitFacade
    /\ ~cfg.ListenAddr
    /\ ~cfg.Discovery

SpecDial == InitDial /\ [][NextDial]_vars

\* Scheduler scenario: one Start, one Stop, the run loop scheduling the tasks
\* the planner returns, their workers, and the shutdown sequence; no
\* connections.
NextSched ==
    \/ FacadeOnceNext
    \/ \E k \in Batches : RunScheduleTasks(k)
    \/ \E t \in Planned : WorkerDoReturns(t)
    \/ RunTaskDoneSched
    \/ RunQuit
    \/ RunDisconnectAll
    \/ RunCloseNtab
    \/ RunExit

SpecSched == InitDial /\ [][NextSched]_vars



\* ---------------------------------------------------------------- claims

\* A conn whose peer driver was spawned and whose delpeer was not yet received.
Admitted(c) == pst[c] \in {"run", "delpeer"}

\* The ids in the peer map whose connection is neither trusted nor static-dialed.
CappedPeers == {i \in PeerIDs(peers) : ~Exempt(conn[peers[i]])}

\* The run loop holds a verdict it computed at the first (second) checkpoint.
Verdict1(v) == loop = "phsend" /\ lerr = v
Verdict2(v) == loop = "apsend" /\ lerr = v

\* C1: in every reachable state the peers in the map that are neither trusted
\* nor static-dialed number at most MaxPeers.
C1_CappedPeersAtMostMaxPeers == Cardinality(CappedPeers) <= cfg.MaxPeers

\* C1 witness: the map holds MaxPeers capped peers and a further capped
\* connection, which passed the first checkpoint, is refused at the second.
C1_Witness ==
    /\ Verdict2("DiscTooManyPeers")
    /\ Cardinality(CappedPeers) = cfg.MaxPeers

\* C2: two admitted connections never have the same NodeID, and no step
\* replaces an entry of the peer map by another peer.
C2_OnePeerPerNodeID ==
    /\ [](\A c1, c2 \in Conns :
            (Admitted(c1) /\ Admitted(c2) /\ conn[c1].id = conn[c2].id) => c1 = c2)
    /\ [][\A i \in NodeIDs : (peers[i] # 0 /\ peers'[i] # 0) => peers'[i] = peers[i]]_vars

\* C2 witness: a second connection with the NodeID of a peer in the map passed
\* the first checkpoint and is refused at the second as already connected.
C2_Witness ==
    /\ Verdict2("DiscAlreadyConnected")
    /\ peers[conn[lc].id] # 0
    /\ peers[conn[lc].id] # lc

\* C3: the server's own NodeID is never a key of the peer map, before or after
\* Stop; no admitted connection has it; a connection that learned it never
\* gets through the checkpoints: the run loop never accepts it at the second
\* one, and answers nil at the first one only when the check ran after Stop
\* had cleared srv.running (Self() is then the empty node).
C3_NeverSelf ==
    /\ peers[SelfID] = 0
    /\ \A c \in Conns : Admitted(c) => conn[c].id # SelfID
    /\ Verdict2("nil") => conn[lc].id # SelfID
    /\ (Verdict1("nil") /\ conn[lc].id = SelfID) => ~running

\* C3 witness: Stop has returned and the run loop, still handling the first
\* checkpoint of a connection that learned the server's own id, answers nil.
C3_Witness ==
    /\ stopDone
    /\ Verdict1("nil")
    /\ conn[lc].id = SelfID

\* C5: the run loop never answers DiscTooManyPeers, at either checkpoint, to a
\* connection whose learned id is in TrustedNodes or that is static-dialed.
C5_ExemptNeverTooManyPeers ==
    (loop \in {"phsend", "apsend"} /\ lerr = "DiscTooManyPeers") =>
        /\ conn[lc].id \notin cfg.TrustedNodes
        /\ conn[lc].kind # "staticDialedConn"

\* C5 witness: MaxPeers = 1, an untrusted peer is in the map and a trusted
\* inbound connection was admitted next to it: the map has 2 entries.
C5_Witness ==
    /\ cfg.MaxPeers = 1
    /\ PeerLen(peers) = 2
    /\ \E i, j \in PeerIDs(peers) :
          /\ ~Exempt(conn[peers[i]])
          /\ conn[peers[j]].kind = "inboundConn"
          /\ conn[peers[j]].trusted
          /\ j \in cfg.TrustedNodes

\* C6: when the run loop evaluates the second checkpoint for a connection that
\* shares no capability with the non-empty configured protocols, the verdict is
\* DiscUselessPeer, the peer map is unchanged and no peer driver is spawned.
C6_UselessPeerRejected ==
    [][(loop = "ap" /\ loop' = "apsend" /\ Useless(conn[lc])) =>
          /\ lerr' = "DiscUselessPeer"
          /\ peers' = peers
          /\ pst' = pst]_vars

\* C6 witness: protocols {eth/65}, an inbound peer with caps {xyz/1} is refused
\* at the second checkpoint with DiscUselessPeer.
C6_Witness ==
    /\ Verdict2("DiscUselessPeer")
    /\ cfg.Protocols = {"eth/65"}
    /\ conn[lc].caps = {"xyz/1"}
    /\ conn[lc].kind = "inboundConn"
    /\ pst[lc] = "none"


\* A worker the server spawned is still executing.
WorkerRunning ==
    \/ loop \notin {"none", "exit"}
    \/ acc \in {"accept", "slot"}
    \/ \E c \in Conns : conn[c].st \notin {"free", "done"}
    \/ \E c \in Conns : pst[c] \in {"run", "delpeer"}

\* C4: once Stop has returned, no worker the server spawned is still executing
\* and the peer map is empty.
C4_StopWaitsForWorkers == stopDone => (~WorkerRunning /\ PeerLen(peers) = 0)

\* A step that is an invocation of Start (of Stop).
StartStep == startCalls' = startCalls + 1
StopStep == stopCalls' = stopCalls + 1

\* No run loop, accept loop, setup driver or peer driver is spawned by the step.
NoSpawn == UNCHANGED <<loop, acc, loopSpawns, conn, pst>>

\* C7 as stated: Start fails and spawns nothing if the server is running or
\* has no private key; in every other case it returns nil and spawns exactly
\* one run loop.
C7_StartFailsOnlyOnConfig ==
    [][StartStep =>
          IF running \/ ~cfg.PrivateKey
          THEN startRet' # "nil" /\ NoSpawn
          ELSE /\ startRet' = "nil"
               /\ loop = "none" /\ loop' = "select"
               /\ loopSpawns' = loopSpawns + 1]_vars

\* C7, amended: Start fails and spawns nothing if the server is running or has
\* no private key, and also if starting discovery or the listener fails; in
\* every other case it returns nil and spawns exactly one run loop.  No more
\* than one run loop is ever spawned.
C7_StartGuarded ==
    /\ [](loopSpawns <= 1)
    /\ [][StartStep =>
            IF running \/ ~cfg.PrivateKey
            THEN startRet' \in {"errAlreadyRunning", "errNoPrivateKey"} /\ NoSpawn
            ELSE IF startRet' \in {"errDiscovery", "errListen"}
            THEN NoSpawn
            ELSE /\ startRet' = "nil"
                 /\ loop = "none" /\ loop' = "select"
                 /\ loopSpawns' = loopSpawns + 1]_vars

\* C7 witness: a second Start on the running server was refused and the one
\* run loop the first Start spawned is there.
C7_Witness ==
    /\ startCalls = 2
    /\ startRet = "errAlreadyRunning"
    /\ started
    /\ loopSpawns = 1
    /\ loop = "select"

\* C8: after Start and Stop have returned, a further Stop changes nothing of
\* the server, and quit is closed once: no close of a closed channel.
C8_StopIdempotent ==
    /\ [](started => (~panicked /\ quitCloses <= 1))
    /\ [][(StopStep /\ started /\ stopDone) =>
            UNCHANGED <<cfg, loopWG, running, lock, quit, listener, panicked,
                        quitCloses, ntab, slots, dialVars, loopVars, peers,
                        acc, conn, peerVars, callVars>>]_vars

\* C8 witness: Start, Stop, Stop were called and have returned; quit was
\* closed once.
C8_Witness ==
    /\ started
    /\ stopCalls = 2
    /\ lock = "free"
    /\ quit = "closed"
    /\ quitCloses = 1
    /\ ~panicked

\* C10: a Peers or PeerCount call begun after Stop returned finds quit closed
\* at its select (so it does not wait), never hands a closure to the run loop,
\* and returns the empty result.
C10_PeersEmptyAfterStop ==
    callLate =>
        /\ callSt = "select" => quit = "closed"
        /\ callSt # "waitdone"
        /\ callSt = "idle" => callRet = NoResult

\* C10 witness: such a call has returned empty while a peer was still in the
\* peer map.
C10_Witness ==
    /\ callLate
    /\ callSt = "idle"
    /\ calls > 0
    /\ callKind = "Peers"
    /\ callRet.ps = {}
    /\ PeerLen(peers) > 0

\* The results a call in progress may return: the closure's value on a peer
\* map that existed since the call began.
SeenResults ==
    IF callKind = "Peers"
    THEN {[NoResult EXCEPT !.ps = m] : m \in callSeen}
    ELSE {[NoResult EXCEPT !.count = Cardinality(m)] : m \in callSeen}

\* The step in which the call in progress returns.
ReturnStep == callSt # "idle" /\ callSt' = "idle"

\* C9: a Peers or PeerCount call on a started server returns; it returns the
\* closure's value on the peer map of one instant between call and return,
\* or the empty result when quit is closed; the peer map does not change in
\* the step that runs the closure nor until the run loop has signalled
\* peerOpDone.
C9_PeersReturnsSnapshot ==
    /\ (callSt # "idle") ~> (callSt = "idle")
    /\ [][ReturnStep =>
            \/ callSt = "waitdone" /\ callRet' \in SeenResults
            \/ /\ callSt = "select" /\ quit = "closed"
               /\ callRet' = NoResult]_vars
    /\ [][(callSt' = "waitdone" \/ callSt = "waitdone") => peers' = peers]_vars

\* C9 witness: a Peers call returned a non-empty snapshot that is no longer
\* the peer map at the time of the return.
C9_Witness ==
    /\ callSt = "idle"
    /\ calls > 0
    /\ callKind = "Peers"
    /\ callRet.ps # {}
    /\ callRet.ps # PeerSet(peers)

\* C11: a conn whose setup driver has returned is closed or has its peer in
\* the peer map (or had, until the run loop received its delpeer): setupConn
\* has no return that leaves a connection it did not get admitted open.
C11_NoSocketLeaked ==
    \A c \in Conns : conn[c].st = "done" => (conn[c].closed \/ pst[c] # "none")

\* C11 witness: of two inbound connections whose setup driver returned, one
\* was closed without a peer and the other is an open admitted peer.
C11_Witness ==
    \E c, d \in Conns :
        /\ conn[c].st = "done" /\ conn[c].closed /\ pst[c] = "none"
        /\ conn[d].st = "done" /\ ~conn[d].closed /\ pst[d] = "run"
        /\ conn[d].kind = "inboundConn"

\* C12: once Stop has closed quit, an admitted peer whose session is running
\* has its connection closed by the server only after the run loop told it
\* Disconnect(DiscQuitting).
C12_ToldQuittingBeforeClose ==
    \A c \in Conns :
        (quit = "closed" /\ pst[c] = "run" /\ conn[c].closed) => pdisc[c]

\* The conn of dial task t was admitted: its peer was inserted in the peer map.
TaskAdmitted(t) == task[t].c # 0 /\ pst[task[t].c] # "none"

\* C13: for every dial task whose completion the run loop has handed to the
\* planner, the task's conn was admitted or the time recorded for it is not
\* earlier than the time the task was started.
C13_HistoryNotBeforeStart ==
    \A t \in Tasks :
        task[t].st = "done" => (TaskAdmitted(t) \/ task[t].rec >= task[t].start)

\* C14: when the run loop hands the completion of a dial task to the planner,
\* the task's conn is no longer at a checkpoint: if it was admitted, its peer
\* was inserted and the verdict sent before; and no peer is inserted for the
\* conn of a task the planner was already told about.
C14_InsertThenVerdictThenTaskDone ==
    /\ [](\A t \in Tasks :
            (task[t].st = "done" /\ task[t].c # 0) =>
                /\ lc # task[t].c
                /\ conn[task[t].c].st = "done")
    /\ [][\A t \in Tasks :
            (task[t].st = "sent" /\ task'[t].st = "done" /\ TaskAdmitted(t)) =>
                /\ loop = "select"
                /\ lc # task[t].c
                /\ conn[task[t].c].st = "done"]_vars
    /\ [][\A t \in Tasks :
            (task[t].st = "done" /\ task[t].c # 0) =>
                (pst[task[t].c] = "none" => pst'[task[t].c] = "none")]_vars

\* C14 witness: the planner was told a dial task is done whose conn is an
\* admitted peer, present in the peer map.
C14_Witness ==
    \E t \in Tasks :
        /\ task[t].st = "done"
        /\ TaskAdmitted(t)
        /\ pst[task[t].c] = "run"
        /\ peers[conn[task[t].c].id] = task[t].c

\* The run loop has left its main loop: it is in the shutdown sequence or has
\* returned.
InShutdown == loop \in {"disconnect", "ntabclose", "drain", "exit"}

\* C15: once quit is closed, the run loop eventually leaves its main loop and
\* enters the shutdown sequence.
C15_QuitLeadsToShutdown == (quit = "closed" /\ loop # "none") ~> InShutdown

\* C16: every peer driver's send on delpeer is eventually received by the run
\* loop, in its main loop or in the shutdown drain.
C16_DelPeerReceived == \A c \in Conns : (pst[c] = "delpeer") ~> (pst[c] = "gone")

\* The setup driver of c returns from a checkpoint in this step.
LeavesCheckpoint(c) ==
    /\ conn[c].st \in {"cp1send", "cp1wait", "cp2send", "cp2wait"}
    /\ conn'[c].st = "done"

\* C17: a setup driver that returns from a checkpoint closes its conn only when
\* the conn was not admitted; the conn of a peer the run loop inserted at the
\* second checkpoint is left open by its setup driver.
C17_SetupClosesOnlyNonAdmitted ==
    [][\A c \in Conns :
         (LeavesCheckpoint(c) /\ pst[c] # "none" /\ ~conn[c].closed)
             => ~conn'[c].closed]_vars

\* C18: once the run loop is in its shutdown sequence, and peer sessions end
\* after they are told to disconnect, the run loop returns, and it returns only
\* with an empty peer map; every peer has been told DiscQuitting before the
\* discovery table is closed, and the table is closed before delpeer is drained.
C18_ShutdownTerminatesInOrder ==
    /\ (loop = "disconnect") ~> (loop = "exit")
    /\ [](loop = "exit" => PeerLen(peers) = 0)
    /\ [](loop \in {"ntabclose", "drain", "exit"} =>
            \A c \in PeerSet(peers) : pst[c] = "run" => pdisc[c])
    /\ [](loop \in {"disconnect", "ntabclose"} => ntab # "closed")
    /\ [](loop \in {"drain", "exit"} => ntab # "open")
    /\ [][(loop \in {"disconnect", "ntabclose"}) => peers' = peers]_vars

C18_Witness ==
    /\ loop = "exit"
    /\ ntab = "closed"
    /\ \E c \in Conns : pst[c] = "gone" /\ pdisc[c]

\* The run loop evaluates encHandshakeChecks in this step: directly in the
\* posthandshake case, or through protoHandshakeChecks in the addpeer case.
EncChecksStep ==
    \/ loop = "ph" /\ loop' = "phsend"
    \/ loop = "ap" /\ loop' = "apsend" /\ ~Useless(conn[lc])

\* The verdict of such a step is that of the first matching rule, own being the
\* identity the third rule compares with; the peer map is not modified by the
\* check (the addpeer case itself inserts the peer after a nil verdict).
FirstMatchingRule(own) ==
    LET c == conn'[lc]
        over == /\ ~(c.trusted \/ c.kind = "staticDialedConn")
                /\ Cardinality({i \in NodeIDs : peers[i] # 0}) >= cfg.MaxPeers
        dup == peers[c.id] # 0
        self == c.id = own
    IN  /\ lerr' = "DiscTooManyPeers" <=> over
        /\ lerr' = "DiscAlreadyConnected" <=> (~over /\ dup)
        /\ lerr' = "DiscSelf" <=> (~over /\ ~dup /\ self)
        /\ lerr' = "nil" <=> (~over /\ ~dup /\ ~self)
        /\ (loop = "ph" \/ lerr' # "nil") => peers' = peers

\* C19 (as amended): encHandshakeChecks returns the verdict of the first
\* matching rule among: DiscTooManyPeers if the map holds MaxPeers entries or
\* more, counting every entry, and the conn is neither trusted nor
\* static-dialed; DiscAlreadyConnected if the learned id is in the map; DiscSelf
\* if the learned id is srv.Self().ID, which is the server's own id while the
\* server is running and the zero id otherwise; else nil. It never modifies
\* the peer map.
C19_FirstMatchingRule == [][EncChecksStep => FirstMatchingRule(SelfNodeID)]_vars

\* C19 witness: a conn that is neither trusted nor static-dialed is answered
\* DiscTooManyPeers at the first checkpoint while the only peer of the map is a
\* trusted one.
C19_Witness ==
    /\ Verdict1("DiscTooManyPeers")
    /\ PeerLen(peers) = cfg.MaxPeers
    /\ \A i \in PeerIDs(peers) : conn[peers[i]].trusted

\* C19 (as stated): the third rule answers DiscSelf whenever the learned id is
\* the server's own id.
C19_OwnIdAlwaysDiscSelf == [][EncChecksStep => FirstMatchingRule(SelfID)]_vars

\* The inbound setup drivers that are running: setupConn was started by the
\* accept loop and has not returned.
InboundDrivers ==
    {c \in Conns : conn[c].kind = "inboundConn" /\ conn[c].st \notin {"free", "done"}}

\* The slot the accept loop took with <-slots and has not handed to a driver.
HeldByAcceptLoop == IF acc \in {"accept", "exit"} THEN 1 ELSE 0

\* C20: with the accept loop started, the running inbound setup drivers are at
\* most Tokens; the slots in the channel, those of the running drivers and the
\* one the accept loop holds while in Accept sum to Tokens, so that the channel
\* never holds more than its capacity and no return of a slot blocks; a driver
\* that returns puts back exactly one slot, and no other step adds a slot.
C20_SlotsBalance ==
    /\ [](acc # "none" =>
            /\ Cardinality(InboundDrivers) <= Tokens
            /\ slots + Cardinality(InboundDrivers) + HeldByAcceptLoop = Tokens
            /\ slots >= 0
            /\ slots <= Tokens)
    /\ [][\A c \in Conns :
            (acc # "none" /\ c \in InboundDrivers /\ conn'[c].st = "done")
                => slots' = slots + 1]_vars
    /\ [][(acc # "none" /\ \A c \in InboundDrivers : conn'[c].st # "done")
                => slots' <= slots]_vars

\* C20 witness: with a single slot, a second connection was accepted after
\* the first driver returned its slot, and the accept loop is parked on slots
\* while the second driver runs.
C20_Witness ==
    /\ Tokens = 1
    /\ acc = "slot"
    /\ slots = 0
    /\ \E c, d \in Conns : conn[c].st = "done" /\ d \in InboundDrivers

\* The elements of a sequence of tasks.
TaskSet(ts) == {ts[i] : i \in 1..Len(ts)}

\* C21: len(runningTasks) never exceeds maxActiveDialTasks, and neither does
\* the number of workers inside t.Do; a step that finds maxActiveDialTasks
\* tasks running starts none; a task leaves runningTasks only in the step
\* that passes it to dialstate.taskDone.
C21_RunningTasksCapped ==
    /\ [](/\ Len(runningTasks) <= maxActiveDialTasks
          /\ Cardinality(doing) <= maxActiveDialTasks)
    /\ [][Len(runningTasks) >= maxActiveDialTasks => spawned' = spawned]_vars
    /\ [][\A t \in TaskSet(runningTasks) \ TaskSet(runningTasks') :
             /\ taskdone # <<>>
             /\ t = Head(taskdone)
             /\ handled' = handled \cup {t}]_vars

\* C21 witness: maxActiveDialTasks tasks are running and one is queued, after
\* a completed task was removed from runningTasks.
C21_Witness ==
    /\ Len(runningTasks) = maxActiveDialTasks
    /\ queuedTasks # <<>>
    /\ handled # {}

\* Number of elements of a sequence of tasks equal to t.
Occurrences(ts, t) == Cardinality({i \in 1..Len(ts) : ts[i] = t})

\* A step that executes scheduleTasks.
ScheduleStep == sched = "due" /\ sched' = "done"

\* The number of previously queued tasks a ScheduleStep starts.
StartedFromQueue ==
    Cardinality(TaskSet(queuedTasks) \cap TaskSet(runningTasks'))

\* C22: a task the planner returned is, until it is passed to
\* dialstate.taskDone, exactly once in exactly one of queuedTasks (no worker
\* started) and runningTasks (one worker started), and afterwards in neither;
\* no task gets a second worker.  scheduleTasks starts the queued tasks in
\* queue order, starts a new task only when it has started all of them, asks
\* the planner only when fewer than maxActiveDialTasks tasks are running, and
\* passes len(runningTasks)+len(queuedTasks).
C22_QueuedOrRunningOnce ==
    /\ [](\A t \in Planned :
            /\ spawned[t] <= 1
            /\ Occurrences(runningTasks, t) =
                  (IF t <= issued /\ t \notin handled /\ spawned[t] = 1
                   THEN 1 ELSE 0)
            /\ Occurrences(queuedTasks, t) =
                  (IF t <= issued /\ t \notin handled /\ spawned[t] = 0
                   THEN 1 ELSE 0))
    /\ [][ScheduleStep =>
            LET n == StartedFromQueue
                rt == runningTasks \o SubSeq(queuedTasks, 1, n)
                q == SubSeq(queuedTasks, n + 1, Len(queuedTasks))
            IN  /\ SubSeq(runningTasks', 1, Len(rt)) = rt
                /\ SubSeq(queuedTasks', 1, Len(q)) = q
                /\ Len(runningTasks') > Len(rt) => q = <<>>
                /\ runningTasks' \o queuedTasks' =
                      rt \o q \o [i \in 1..(issued' - issued) |-> issued + i]
                /\ asked' = -1 => issued' = issued
                /\ asked' # -1 =>
                      /\ Len(rt) < maxActiveDialTasks
                      /\ asked' = Len(rt) + Len(q)]_vars

\* C22 witness: the planner has returned all its tasks, two of them were
\* queued, and after one completion was processed scheduleTasks started the
\* first of the two and asked for no new task.
C22_Witness ==
    /\ issued = NPlanned
    /\ sched = "done"
    /\ asked = -1
    /\ Cardinality(handled) = 1
    /\ Len(runningTasks) = maxActiveDialTasks
    /\ queuedTasks = <<NPlanned>>

\* The goroutines the server spawned after loopWG.Add(1) and that have not
\* returned: the run loop, the accept loop, the inbound setup drivers, the
\* peer drivers, the workers of the dial tasks (those followed as tasks, those
\* of the planned tasks, and those known only by the conn they dialed).
WorkersAdded ==
    (IF loop \notin {"none", "exit"} THEN 1 ELSE 0)
    + (IF acc \in {"accept", "slot"} THEN 1 ELSE 0)
    + Cardinality(InboundDrivers)
    + Cardinality({c \in Conns : pst[c] \in {"run", "delpeer"}})
    + Cardinality({t \in Tasks : task[t].st \in {"run", "setup"}})
    + Cardinality(doing)
    + Cardinality({c \in Conns : /\ conn[c].kind # "inboundConn"
                                 /\ conn[c].st \notin {"free", "done"}
                                 /\ \A t \in Tasks : task[t].c # c})

\* The watchdog goroutines of setupConn that have not returned.
Watchdogs == {c \in Conns : conn[c].wd}

\* C23: the counter of loopWG is at least the number of goroutines the server
\* spawned and that have not returned, so that a wait on it covers them all.
C23_WaitGroupCoversWorkers == loopWG >= WorkersAdded + Cardinality(Watchdogs)

\* The counter of loopWG is the number of live goroutines other than
\* watchdogs.
WaitGroupCountsAdded == loopWG = WorkersAdded

\* The positions a setup driver goes through, in order, and the position
\* after each.
Stages == <<"gate", "enc", "cp1send", "cp1wait", "proto", "cp2send", "cp2wait">>
StageAfter(st) ==
    IF st = "free" THEN "gate"
    ELSE IF st = "cp2wait" THEN "done"
    ELSE Stages[(CHOOSE i \in 1..6 : Stages[i] = st) + 1]

\* C24: a setup driver goes through its stages in order or returns; it leaves
\* the encryption handshake for the posthandshake checkpoint only with an
\* open conn, a learned id and, if it dialed, the dialed node's id; it leaves
\* the posthandshake checkpoint for the protocol handshake only on a nil
\* verdict; it leaves the protocol handshake for the addpeer checkpoint only
\* with an open conn and the advertised id equal to the learned one; a peer
\* is inserted only for the conn the run loop holds at the addpeer checkpoint,
\* with a nil verdict; so every admitted conn has its learned id equal to the
\* advertised one and, if dialed, to the dialed node's.
C24_AdmittedThroughAllStages ==
    /\ [][\A c \in Conns :
            conn'[c].st # conn[c].st =>
               /\ conn[c].st # "done"
               /\ conn'[c].st \in {StageAfter(conn[c].st), "done"}
               /\ conn'[c].st = "cp1send" =>
                     /\ ~conn[c].closed
                     /\ conn'[c].id \in NodeIDs
                     /\ conn'[c].dest =
                           (IF conn[c].kind = "inboundConn" THEN ZeroID
                            ELSE conn'[c].id)
               /\ conn'[c].st = "proto" =>
                     loop = "phsend" /\ lc = c /\ lerr = "nil"
               /\ conn'[c].st = "cp2send" =>
                     ~conn[c].closed /\ conn'[c].phs = conn[c].id]_vars
    /\ [][\A c \in Conns :
            (pst[c] = "none" /\ pst'[c] # "none") =>
               /\ loop = "ap" /\ lc = c /\ lerr' = "nil"
               /\ peers'[conn[c].id] = c]_vars
    /\ [][(loop = "select" /\ loop' = "ph") => conn[lc'].st = "cp1send"]_vars
    /\ [][(loop = "select" /\ loop' = "ap") => conn[lc'].st = "cp2send"]_vars
    /\ [](\A c \in Conns :
            Admitted(c) =>
               /\ conn[c].id \in NodeIDs
               /\ conn[c].phs = conn[c].id
               /\ conn[c].kind # "inboundConn" => conn[c].dest = conn[c].id
               /\ conn[c].kind = "inboundConn" => conn[c].dest = ZeroID)

\* C24 witness: a static-dialed conn and an inbound conn are both admitted
\* and their setup drivers have returned.
C24_Witness ==
    \E c, d \in Conns :
       /\ conn[c].kind = "staticDialedConn" /\ pst[c] = "run"
       /\ conn[c].st = "done" /\ conn[c].dest = conn[c].id
       /\ conn[d].kind = "inboundConn" /\ pst[d] = "run"
       /\ conn[d].st = "done" /\ conn[d].phs = conn[d].id

\* The errors Start returns after it went past its running check.
StartErrors == {"errNoPrivateKey", "errDiscovery", "errListen"}

\* C25: a Start that returns such an error leaves running false; no Stop
\* closes a quit channel that was never made; and the Start that follows a
\* failed Start is not refused as already running.
C25_FailedStartLeavesStopped ==
    /\ [][(StartStep /\ startRet' \in StartErrors) => ~running']_vars
    /\ [](~started => ~panicked)
    /\ [][(StartStep /\ startRet \in StartErrors /\ stopCalls = 0)
             => startRet' # "errAlreadyRunning"]_vars

\* The run loop receives the delpeer message of the driver of c.
DelPeerStep(c) == pst[c] = "delpeer" /\ pst'[c] = "gone"

\* C26: the peer map holds exactly the conns whose driver was spawned and whose
\* delpeer message was not received, each under its own id; an entry is
\* inserted in the step that spawns its driver; a driver goes once from running
\* to sending delpeer to done; the map changes otherwise only when a delpeer is
\* received, which removes the sender's entry and no other; and the run loop
\* exits with an empty map and no driver left.
C26_PeerMapMatchesDrivers ==
    /\ [](PeerSet(peers) = {c \in Conns : Admitted(c)})
    /\ [](\A c \in Conns : Admitted(c) => peers[conn[c].id] = c)
    /\ [][\A c \in Conns :
            /\ (pst'[c] # pst[c]) =>
                   <<pst[c], pst'[c]>> \in {<<"none", "run">>,
                                            <<"run", "delpeer">>,
                                            <<"delpeer", "gone">>}
            /\ (pst[c] = "none" /\ pst'[c] = "run") <=>
                   (c \notin PeerSet(peers) /\ c \in PeerSet(peers'))
            /\ DelPeerStep(c) =>
                   /\ peers[conn[c].id] = c
                   /\ peers' = [peers EXCEPT ![conn[c].id] = 0]
                   /\ \A d \in Conns \ {c} : pst'[d] = pst[d]]_vars
    /\ [][(peers' # peers) =>
             \E c \in Conns : DelPeerStep(c) \/ (pst[c] = "none" /\ pst'[c] = "run")]_vars
    /\ [](loop = "exit" => PeerLen(peers) = 0 /\ \A c \in Conns : ~Admitted(c))

\* C26 witness: of two peers that were in the map when the run loop shut down,
\* the drain has received the delpeer of one, and the entry of the other, whose
\* driver has not sent yet, remains.
C26_Witness ==
    /\ loop = "drain"
    /\ \E c, d \in Conns :
          /\ pdisc[c] /\ pst[c] = "gone"
          /\ pdisc[d] /\ pst[d] = "run"
          /\ PeerSet(peers) = {d}

\* C27: the taskdone messages not yet received and the tasks still executing
\* number together at most maxActiveDialTasks, the capacity of taskdone, so the
\* buffer has room whenever a worker is about to send, the run loop receiving
\* or not.
C27_TaskDoneSendNeverBlocks ==
    /\ Len(taskdone) + Cardinality(doing) <= maxActiveDialTasks
    /\ doing # {} => Len(taskdone) < maxActiveDialTasks

\* C27 witness: after the run loop has returned, every one of
\* maxActiveDialTasks workers has sent and the buffer is full.
C27_Witness ==
    /\ loop = "exit"
    /\ Len(taskdone) = maxActiveDialTasks
    /\ doing = {}

====
